---- MODULE Spec2Model ----
(***************************************************************************)
(* Model of reactionbot.py: the fleet run (main), the quarantine of        *)
(* banned sessions (move_session_to_ban_dir), the conversion fallback      *)
(* (try_convert), the restart loop (start / __main__), the reaction        *)
(* handler (send_reaction) and the config normalisation (get_config).      *)
(***************************************************************************)
EXTENDS Integers, Sequences, FiniteSets, TLC

\* ------------------------------------------------------------------ bounds
\* largest number of config files the active area holds initially
MaxConfigs == 2
\* number of entries of CHANNELS (config.py)
NumChannels == 2
\* number of entries of EMOJIS (config.py)
NumEmojis == 2

\* -------------------------------------------------------- program constants
TRY_AGAIN_SLEEP == 20

CONFIG_FILE_SUFFIXES == <<".ini", ".json">>

\* the base names (file stems) of the files of the sessions directory
Stems == {"a", "b"}
CHANNELS == 1..NumChannels

SESSION == ".session"
Kinds == {SESSION, ".ini", ".json"}
ConfigKinds == {CONFIG_FILE_SUFFIXES[n] : n \in 1..Len(CONFIG_FILE_SUFFIXES)}

\* the directories: WORK_DIR, BANNED_SESSIONS_DIR, UNNECESSARY_SESSIONS_DIR
WORK_DIR == "active"
BANNED_SESSIONS_DIR == "banned_sessions"
UNNECESSARY_SESSIONS_DIR == "unnecessary_sessions"
ABSENT == "absent"
Areas == {WORK_DIR, BANNED_SESSIONS_DIR, UNNECESSARY_SESSIONS_DIR}

\* a file of the sessions tree is <<stem, kind>>
Files == Stems \X Kinds
ConfigFiles == Stems \X ConfigKinds

VARIABLES
    base_abs,      \* TRUE iff sys.argv[0] gives an absolute BASE_DIR
    fs,            \* fs[file]: the area the file is in, or ABSENT
    unreadable,    \* config files whose load or Client construction raises
    pc,            \* position of the driver / of main
    err,           \* the exception that escaped main ("none" when none)
    config_files,  \* main: config_files
    apps,          \* main: apps, a sequence of (client, config, session path)
    life,          \* life[n]: lifecycle state of the client of apps[n]
    joined,        \* joined[n]: channels the client of apps[n] has joined
    calls,         \* client operations invoked in this run, <<n, op>>
    i,             \* index of the app the for loops of main are at
    ch,            \* index of the channel the join loop is at
    slept,         \* seconds slept by start() since the last escaping failure
    quarantined,   \* stems move_session_to_ban_dir has been called for, ever
    EMOJIS,        \* the list EMOJIS of config.py, as a set
    handler,       \* the send_reaction handler: its client, emoji, outcome
    config,        \* get_config: the file's stem and its parsed key/value mapping
    normalized_confing  \* get_config: the record returned, empty before the call

\* what main and start never touch
aux == <<EMOJIS, config, normalized_confing>>

vars == <<base_abs, fs, unreadable, pc, err, config_files, apps, life, joined,
          calls, i, ch, slept, quarantined, EMOJIS, handler, config,
          normalized_confing>>

\* ------------------------------------------------------------- filesystem
\* A path handed around by main: the file <<stem, kind>> either directly in
\* WORK_DIR, or under WORK_DIR/WORK_DIR (nested), where nothing exists.
Path(nested, stem, kind) == [nested |-> nested, stem |-> stem, kind |-> kind]

\* Path.with_suffix
WithSuffix(p, kind) == [p EXCEPT !.kind = kind]

\* Path.exists
Exists(f, p) == ~p.nested /\ f[<<p.stem, p.kind>>] = WORK_DIR

\* Path.rename into a directory, for a path that exists
Rename(f, p, dir) == [f EXCEPT ![<<p.stem, p.kind>>] = dir]

RECURSIVE Perms(_)
Perms(S) ==
    IF S = {} THEN {<<>>}
    ELSE UNION {{<<x>> \o t : t \in Perms(S \ {x})} : x \in S}

\* WORK_DIR.iterdir() filtered to the config suffixes: any listing order
GetConfigFilesPath(f) ==
    Perms({cf \in ConfigFiles : f[cf] = WORK_DIR})

\* session_file_path = WORK_DIR.joinpath(config_file_path.with_suffix('.session')):
\* config_file_path already starts with WORK_DIR, so with a relative BASE_DIR
\* the result is WORK_DIR/WORK_DIR/<stem>.session
SessionFilePath(abs, cf) == Path(~abs, cf[1], SESSION)

\* create_apps ending its loop at the first failing file
RECURSIVE CreateAppsFrom_Aborts(_, _, _)
CreateAppsFrom_Aborts(cfs, bad, abs) ==
    IF cfs = <<>> \/ Head(cfs) \in bad THEN <<>>
    ELSE <<[name |-> Head(cfs)[1], config |-> Head(cfs),
            session_file_path |-> Path(~abs, Head(cfs)[1], SESSION)]>>
         \o CreateAppsFrom_Aborts(Tail(cfs), bad, abs)

\* create_apps: one tuple per config file that loads and constructs
RECURSIVE CreateAppsFrom(_, _, _)
CreateAppsFrom(cfs, bad, abs) ==
    IF cfs = <<>> THEN <<>>
    ELSE LET cf == Head(cfs)
             rest == CreateAppsFrom(Tail(cfs), bad, abs)
         IN  IF cf \in bad THEN rest
             ELSE <<[name |-> cf[1], config |-> cf,
                     session_file_path |-> SessionFilePath(abs, cf)]>> \o rest

\* ------------------------------------------------------------- quarantine
\* The body of the suffix loop of move_session_to_ban_dir for one suffix.
\* r is [fs, raised]; the guard tests session_path, not config_file_path.
BanConfigStep(r, session_path, suffix) ==
    LET config_file_path == WithSuffix(session_path, suffix)
    IN  IF r.raised THEN r
        ELSE IF ~Exists(r.fs, session_path) THEN r
        ELSE IF Exists(r.fs, config_file_path)
             THEN [r EXCEPT !.fs = Rename(r.fs, config_file_path, BANNED_SESSIONS_DIR)]
             ELSE [r EXCEPT !.raised = TRUE]

RECURSIVE BanConfigLoop(_, _, _)
BanConfigLoop(r, session_path, n) ==
    IF n > Len(CONFIG_FILE_SUFFIXES) THEN r
    ELSE BanConfigLoop(BanConfigStep(r, session_path, CONFIG_FILE_SUFFIXES[n]),
                       session_path, n + 1)

\* move_session_to_ban_dir(session_path) on filesystem f
MoveSessionToBanDir(f, session_path) ==
    LET f1 == IF Exists(f, session_path)
              THEN Rename(f, session_path, BANNED_SESSIONS_DIR)
              ELSE f
    IN  BanConfigLoop([fs |-> f1, raised |-> FALSE], session_path, 1)

\* SessionConvertor.move_file_to_unnecessary(path)
MoveFileToUnnecessary(f, p) ==
    IF Exists(f, p) THEN Rename(f, p, UNNECESSARY_SESSIONS_DIR) ELSE f

RECURSIVE UnnecessaryConfigLoop(_, _, _)
UnnecessaryConfigLoop(f, session_path, n) ==
    IF n > Len(CONFIG_FILE_SUFFIXES) THEN f
    ELSE UnnecessaryConfigLoop(
             MoveFileToUnnecessary(f, WithSuffix(session_path, CONFIG_FILE_SUFFIXES[n])),
             session_path, n + 1)

\* try_convert that quarantines the session file alone
TryConvert_SessionOnly(f, session_path, converted) ==
    IF converted THEN f ELSE MoveFileToUnnecessary(f, session_path)

\* try_convert(session_path, config): converted says whether convert() returned
TryConvert(f, session_path, converted) ==
    IF converted THEN f
    ELSE UnnecessaryConfigLoop(MoveFileToUnnecessary(f, session_path), session_path, 1)

\* -------------------------------------------------------------- get_config
\* POSSIBLE_KEY_NAMES (config.py): canonical key, then its source keys in order
POSSIBLE_KEY_NAMES ==
    << [key |-> "api_id", values |-> <<"api_id", "app_id">>],
       [key |-> "name", values |-> <<"name">>] >>

\* the keys a parsed config file can hold
SourceKeys == {"api_id", "app_id", "name"}

\* what config.get(key) gives: None (key absent, or JSON null), the empty
\* string, the JSON number 0, or one of two non-empty strings
ConfigValues == {"None", "''", "0", "7", "8"}

\* not config.get(value): Python truth of the value
Falsy(v) == v \in {"None", "''", "0"}

\* no config file is being loaded
NoConfig == [stem |-> "", mapping |-> <<>>]

\* lines 86-90 without the break: the last source key that matches wins
RECURSIVE FirstMatch_NoBreak(_, _, _)
FirstMatch_NoBreak(values, mapping, n) ==
    IF n > Len(values) THEN "None"
    ELSE LET later == FirstMatch_NoBreak(values, mapping, n + 1)
         IN  IF later # "None" THEN later
             ELSE IF Falsy(mapping[values[n]]) THEN "None"
             ELSE mapping[values[n]]

\* lines 86-90: the value of the first source key, from index n on, whose
\* value is true; "None" when the inner loop ends without a match
RECURSIVE FirstMatch(_, _, _)
FirstMatch(values, mapping, n) ==
    IF n > Len(values) THEN "None"
    ELSE IF Falsy(mapping[values[n]]) THEN FirstMatch(values, mapping, n + 1)
    ELSE mapping[values[n]]

\* normalized_confing[key] = value
Put(d, key, value) ==
    [k \in DOMAIN d \cup {key} |-> IF k = key THEN value ELSE d[k]]

\* lines 85-90: the outer loop over POSSIBLE_KEY_NAMES from entry n on
RECURSIVE Normalize(_, _, _)
Normalize(d, mapping, n) ==
    IF n > Len(POSSIBLE_KEY_NAMES) THEN d
    ELSE LET entry == POSSIBLE_KEY_NAMES[n]
             found == FirstMatch(entry.values, mapping, 1)
         IN  Normalize(IF found = "None" THEN d ELSE Put(d, entry.key, found),
                       mapping, n + 1)

\* get_config(file_path), lines 84-91, for a file of the given stem
GetConfigOf(stem, mapping) ==
    Normalize([k \in {"name"} |-> stem], mapping, 1)

\* ------------------------------------------------------------------- Init
\* no message has been handled in this run
NoHandler ==
    [client |-> 0, emoji |-> 0, sends |-> 0, outcome |-> "none", raised |-> FALSE]

NewRun ==
    /\ pc' = "discover"
    /\ err' = "none"
    /\ config_files' = <<>>
    /\ apps' = <<>>
    /\ life' = <<>>
    /\ joined' = <<>>
    /\ calls' = {}
    /\ i' = 0
    /\ ch' = 0
    /\ handler' = NoHandler

Init ==
    /\ base_abs \in BOOLEAN
    /\ fs \in [Files -> {WORK_DIR, ABSENT}]
    /\ Cardinality({cf \in ConfigFiles : fs[cf] = WORK_DIR}) <= MaxConfigs
    /\ unreadable \in SUBSET {cf \in ConfigFiles : fs[cf] = WORK_DIR}
    /\ pc = "discover"
    /\ err = "none"
    /\ config_files = <<>>
    /\ apps = <<>>
    /\ life = <<>>
    /\ joined = <<>>
    /\ calls = {}
    /\ i = 0
    /\ ch = 0
    /\ slept = 0
    /\ quarantined = {}
    /\ EMOJIS = 1..NumEmojis
    /\ handler = NoHandler
    /\ config = NoConfig
    /\ normalized_confing = <<>>

\* ------------------------------------------------------------------- main
\* main, lines 145-146: make_work_dir (the directories are taken to exist from
\* then on) and get_config_files_path
Discover ==
    /\ pc = "discover"
    /\ \E listing \in GetConfigFilesPath(fs) : config_files' = listing
    /\ pc' = "create_apps"
    /\ UNCHANGED <<handler, aux>>
    /\ UNCHANGED <<base_abs, fs, unreadable, err, apps, life, joined, calls, i, ch,
                   slept, quarantined>>

\* main, line 148: apps = await create_apps(config_files)
CreateApps ==
    /\ pc = "create_apps"
    /\ apps' = CreateAppsFrom(config_files, unreadable, base_abs)
    /\ life' = [n \in 1..Len(apps') |-> "Configured"]
    /\ joined' = [n \in 1..Len(apps') |-> {}]
    /\ pc' = "check"
    /\ UNCHANGED <<handler, aux>>
    /\ UNCHANGED <<base_abs, fs, unreadable, err, config_files, calls, i, ch, slept,
                   quarantined>>

\* the emptiness test left out
NoApps_Skipped(a) == FALSE

\* main, line 149: if not apps
NoApps(a) == Len(a) = 0

\* main, lines 149-150: raise Exception('No apps!'), else enter the for loop
CheckApps ==
    /\ pc = "check"
    /\ IF NoApps(apps)
       THEN /\ pc' = "except"
            /\ err' = "No apps!"
            /\ i' = i
       ELSE /\ pc' = IF Len(apps) = 0 THEN "idle" ELSE "loop"
            /\ err' = err
            /\ i' = 1
    /\ UNCHANGED <<handler, aux>>
    /\ UNCHANGED <<base_abs, fs, unreadable, config_files, apps, life, joined, calls,
                   ch, slept, quarantined>>

\* the for loop of lines 152-170 moves on to the next app, or ends before idle()
LoopNext(n) == IF n < Len(apps) THEN "loop" ELSE "idle"

\* lines 153-157: add_handler, then app.start() is awaited
BeginStart ==
    /\ pc = "loop"
    /\ life' = [life EXCEPT ![i] = "Starting"]
    /\ calls' = calls \cup {<<i, "add_handler">>, <<i, "start">>}
    /\ pc' = "starting"
    /\ UNCHANGED <<handler, aux>>
    /\ UNCHANGED <<base_abs, fs, unreadable, err, config_files, apps, joined, i, ch,
                   slept, quarantined>>

\* the joins of the started client left running while the loop moves on
StartOk_JoinsNotAwaited ==
    /\ pc = "starting"
    /\ life' = [life EXCEPT ![i] = "Running"]
    /\ pc' = LoopNext(i)
    /\ i' = i + 1
    /\ UNCHANGED <<handler, aux>>
    /\ UNCHANGED <<base_abs, fs, unreadable, err, config_files, apps, joined, calls, ch,
                   slept, quarantined>>

\* line 157 returns: the joins of lines 169-170 follow
StartOk ==
    /\ pc = "starting"
    /\ life' = [life EXCEPT ![i] = "Running"]
    /\ pc' = "joining"
    /\ ch' = 1
    /\ UNCHANGED <<handler, aux>>
    /\ UNCHANGED <<base_abs, fs, unreadable, err, config_files, apps, joined, calls, i,
                   slept, quarantined>>

\* a successful conversion followed by a second app.start() of the same client
StartCorrupt_Retries ==
    /\ pc = "starting"
    /\ \E converted \in BOOLEAN :
         /\ fs' = TryConvert(fs, apps[i].session_file_path, converted)
         /\ life' = [life EXCEPT ![i] = IF converted THEN "Converting"
                                        ELSE "UnnecessaryQuarantined"]
         /\ pc' = IF converted THEN "starting" ELSE LoopNext(i)
         /\ i' = IF converted THEN i ELSE i + 1
    /\ UNCHANGED <<handler, aux>>
    /\ UNCHANGED <<base_abs, unreadable, err, config_files, apps, joined, calls, ch,
                   slept, quarantined>>

\* lines 158-160: OperationalError, try_convert, continue
StartCorrupt ==
    /\ pc = "starting"
    /\ \E converted \in BOOLEAN :
         /\ fs' = TryConvert(fs, apps[i].session_file_path, converted)
         /\ life' = [life EXCEPT ![i] = IF converted THEN "Converting"
                                        ELSE "UnnecessaryQuarantined"]
    /\ pc' = LoopNext(i)
    /\ i' = i + 1
    /\ UNCHANGED <<handler, aux>>
    /\ UNCHANGED <<base_abs, unreadable, err, config_files, apps, joined, calls, ch,
                   slept, quarantined>>

\* lines 161-164: UserDeactivatedBan, move_session_to_ban_dir, continue; an
\* exception of move_session_to_ban_dir leaves the handler and main
StartBanned ==
    /\ pc = "starting"
    /\ LET r == MoveSessionToBanDir(fs, apps[i].session_file_path)
       IN  /\ fs' = r.fs
           /\ IF r.raised
              THEN /\ pc' = "except"
                   /\ err' = "FileNotFoundError"
                   /\ i' = i
              ELSE /\ pc' = LoopNext(i)
                   /\ err' = err
                   /\ i' = i + 1
    /\ life' = [life EXCEPT ![i] = "BannedQuarantined"]
    /\ quarantined' = quarantined \cup {apps[i].name}
    /\ UNCHANGED <<handler, aux>>
    /\ UNCHANGED <<base_abs, unreadable, config_files, apps, joined, calls, ch, slept>>

\* lines 165-167: any other Exception, logged, continue
StartOther ==
    /\ pc = "starting"
    /\ life' = [life EXCEPT ![i] = "StartFailed"]
    /\ pc' = LoopNext(i)
    /\ i' = i + 1
    /\ UNCHANGED <<handler, aux>>
    /\ UNCHANGED <<base_abs, fs, unreadable, err, config_files, apps, joined, calls, ch,
                   slept, quarantined>>

\* line 170 returns for channel ch
JoinOk ==
    /\ pc = "joining"
    /\ joined' = [joined EXCEPT ![i] = @ \cup {ch}]
    /\ calls' = calls \cup {<<i, "join_chat">>}
    /\ IF ch < NumChannels
       THEN /\ ch' = ch + 1
            /\ UNCHANGED <<pc, i, life>>
       ELSE /\ ch' = 0
            /\ life' = [life EXCEPT ![i] = "Idle"]
            /\ pc' = LoopNext(i)
            /\ i' = i + 1
    /\ UNCHANGED <<handler, aux>>
    /\ UNCHANGED <<base_abs, fs, unreadable, err, config_files, apps, slept, quarantined>>

\* line 170 raises: no try encloses it, the exception leaves main
JoinFails ==
    /\ pc = "joining"
    /\ calls' = calls \cup {<<i, "join_chat">>}
    /\ pc' = "except"
    /\ err' = "join_chat"
    /\ UNCHANGED <<handler, aux>>
    /\ UNCHANGED <<base_abs, fs, unreadable, config_files, apps, life, joined, i, ch,
                   slept, quarantined>>

\* line 172: idle() returns when the shutdown signal is observed
IdleReturns ==
    /\ pc = "idle"
    /\ calls' = calls \cup {<<0, "idle">>}
    /\ pc' = IF Len(apps) = 0 THEN "returned" ELSE "stopping"
    /\ i' = 1
    /\ UNCHANGED <<handler, aux>>
    /\ UNCHANGED <<base_abs, fs, unreadable, err, config_files, apps, life, joined, ch,
                   slept, quarantined>>

\* a client is started from the return of start() until stop()
Started(n) == life[n] \in {"Running", "Idle"}

StopNext(n) == IF n < Len(apps) THEN "stopping" ELSE "returned"

\* lines 174-175: app.stop() on a started client
StopStarted ==
    /\ pc = "stopping"
    /\ Started(i)
    /\ life' = [life EXCEPT ![i] = "Stopped"]
    /\ calls' = calls \cup {<<i, "stop">>}
    /\ pc' = StopNext(i)
    /\ i' = i + 1
    /\ UNCHANGED <<handler, aux>>
    /\ UNCHANGED <<base_abs, fs, unreadable, err, config_files, apps, joined, ch, slept,
                   quarantined>>

\* lines 174-175: app.stop() on a client that never started returns
StopUnstartedReturns ==
    /\ pc = "stopping"
    /\ ~Started(i)
    /\ calls' = calls \cup {<<i, "stop">>}
    /\ pc' = StopNext(i)
    /\ i' = i + 1
    /\ UNCHANGED <<handler, aux>>
    /\ UNCHANGED <<base_abs, fs, unreadable, err, config_files, apps, life, joined, ch,
                   slept, quarantined>>

\* lines 174-175: app.stop() on a client that never started raises (the client
\* is already terminated); the exception leaves main
StopUnstartedRaises ==
    /\ pc = "stopping"
    /\ ~Started(i)
    /\ calls' = calls \cup {<<i, "stop">>}
    /\ pc' = "except"
    /\ err' = "stop"
    /\ UNCHANGED <<handler, aux>>
    /\ UNCHANGED <<base_abs, fs, unreadable, config_files, apps, life, joined, i, ch,
                   slept, quarantined>>

\* ------------------------------------------------------------ start, __main__
\* the pause taken twice
Pause_Twice(s) == s + 2 * TRY_AGAIN_SLEEP

\* the pause of line 187
Pause(s) == s + TRY_AGAIN_SLEEP

\* lines 184-187: except Exception: log, time.sleep(TRY_AGAIN_SLEEP)
Sleep ==
    /\ pc = "except"
    /\ pc' = "sleeping"
    /\ slept' = Pause(slept)
    /\ UNCHANGED <<handler, aux>>
    /\ UNCHANGED <<base_abs, fs, unreadable, err, config_files, apps, life, joined,
                   calls, i, ch, quarantined>>

\* lines 191-192: start() returned after the sleep, while True calls it again
Restart ==
    /\ pc = "sleeping"
    /\ NewRun
    /\ slept' = 0
    /\ UNCHANGED aux
    /\ UNCHANGED <<base_abs, fs, unreadable, quarantined>>

\* the sleep of line 187 taken after every run, clean or not
Return_Sleeps ==
    /\ pc = "returned"
    /\ pc' = "sleeping"
    /\ slept' = Pause(slept)
    /\ UNCHANGED <<handler, aux>>
    /\ UNCHANGED <<base_abs, fs, unreadable, err, config_files, apps, life, joined,
                   calls, i, ch, quarantined>>

\* lines 183, 191-192: main returned, start() returns without sleeping, while
\* True calls it again
Return ==
    /\ pc = "returned"
    /\ NewRun
    /\ UNCHANGED aux
    /\ UNCHANGED <<base_abs, fs, unreadable, slept, quarantined>>

Next ==
    \/ Discover
    \/ CreateApps
    \/ CheckApps
    \/ BeginStart
    \/ StartOk
    \/ StartCorrupt
    \/ StartBanned
    \/ StartOther
    \/ JoinOk
    \/ JoinFails
    \/ IdleReturns
    \/ StopStarted
    \/ StopUnstartedReturns
    \/ StopUnstartedRaises
    \/ Sleep
    \/ Restart
    \/ Return

Spec == Init /\ [][Next]_vars

\* ----------------------------------------------------------- send_reaction
\* main is suspended in an await, so the event loop runs the handlers
LoopRunning == pc \in {"starting", "joining", "idle", "stopping"}

\* lines 38-40: a message of CHANNELS reaches the started client of apps[n];
\* emoji = random.choice(EMOJIS), client.send_reaction(...) is awaited
MessageArrives ==
    /\ LoopRunning
    /\ handler.outcome # "awaiting"
    /\ \E n \in 1..Len(apps) : \E emoji \in EMOJIS :
         /\ Started(n)
         /\ handler' = [client |-> n, emoji |-> emoji, sends |-> 1,
                        outcome |-> "awaiting", raised |-> FALSE]
    /\ UNCHANGED <<base_abs, fs, unreadable, pc, err, config_files, apps, life, joined,
                   calls, i, ch, slept, quarantined, aux>>

\* what client.send_reaction can end with
SendOutcomes == {"ok", "ReactionInvalid", "UserDeactivatedBan", "Exception"}

\* the handler without its last except clause
Handle_NoGenericExcept(h, outcome) ==
    [h EXCEPT !.outcome = outcome, !.raised = (outcome = "Exception")]

\* lines 39-47: every outcome of the awaited call is logged at most, the
\* handler returns
Handle(h, outcome) ==
    [h EXCEPT !.outcome = outcome, !.raised = FALSE]

\* a ban met at reaction time treated like a ban met at start
SendReactionEnds_Quarantines ==
    /\ LoopRunning
    /\ handler.outcome = "awaiting"
    /\ \E outcome \in SendOutcomes :
         /\ handler' = Handle(handler, outcome)
         /\ fs' = IF outcome = "UserDeactivatedBan"
                  THEN MoveSessionToBanDir(fs, apps[handler.client].session_file_path).fs
                  ELSE fs
    /\ UNCHANGED <<base_abs, unreadable, pc, err, config_files, apps, life, joined,
                   calls, i, ch, slept, quarantined, aux>>

\* lines 40-47: the awaited client.send_reaction ends, the handler ends
SendReactionEnds ==
    /\ LoopRunning
    /\ handler.outcome = "awaiting"
    /\ \E outcome \in SendOutcomes : handler' = Handle(handler, outcome)
    /\ UNCHANGED <<base_abs, fs, unreadable, pc, err, config_files, apps, life, joined,
                   calls, i, ch, slept, quarantined, aux>>

HandlerNext ==
    \/ Next
    \/ MessageArrives
    \/ SendReactionEnds

\* a sessions directory whose config files all load and whose accounts all
\* have their session file
HandlerInit ==
    /\ Init
    /\ unreadable = {}
    /\ \A s \in Stems : fs[<<s, SESSION>>] = WORK_DIR

\* the fleet run together with the messages its started clients receive
HandlerSpec == HandlerInit /\ [][HandlerNext]_vars

\* create_apps, line 102: get_config(config_file_path) returns
GetConfig ==
    /\ pc = "create_apps"
    /\ config # NoConfig
    /\ DOMAIN normalized_confing = {}
    /\ normalized_confing' = GetConfigOf(config.stem, config.mapping)
    /\ UNCHANGED <<base_abs, fs, unreadable, pc, err, config_files, apps, life, joined,
                   calls, i, ch, slept, quarantined, EMOJIS, handler, config>>

\* create_apps is at a .json file of some stem and of any content
ConfigInit ==
    /\ config \in [stem : Stems, mapping : [SourceKeys -> ConfigValues]]
    /\ normalized_confing = <<>>
    /\ base_abs = TRUE
    /\ fs = [f \in Files |-> IF f = <<config.stem, ".json">> THEN WORK_DIR ELSE ABSENT]
    /\ unreadable = {}
    /\ pc = "create_apps"
    /\ err = "none"
    /\ config_files = << <<config.stem, ".json">> >>
    /\ apps = <<>>
    /\ life = <<>>
    /\ joined = <<>>
    /\ calls = {}
    /\ i = 0
    /\ ch = 0
    /\ slept = 0
    /\ quarantined = {}
    /\ EMOJIS = 1..NumEmojis
    /\ handler = NoHandler

\* get_config applied to one config file
ConfigSpec == ConfigInit /\ [][GetConfig]_vars

\* start() always gets to run: the sleep of line 187 ends and the loop of
\* lines 191-192 goes on
FairSpec == Spec /\ WF_vars(Sleep) /\ WF_vars(Restart) /\ WF_vars(Return)

\* ----------------------------------------------------------------- claims
AppIdx == 1..Len(apps)

\* the stem of the account of apps[n]
StemOf(n) == apps[n].name

\* no other client of this run is built from a config file of the same stem
OwnStem(n) == \A m \in AppIdx : m # n => StemOf(m) # StemOf(n)

\* every existing artifact of stem s is in area a
AllIn(f, s, a) == \A k \in Kinds : f[<<s, k>>] \in {a, ABSENT}

\* the for loop of lines 152-170 has ended and idle() is awaited
LoopEnded == pc = "idle"

\* the session path of apps[n] names the session file in WORK_DIR
Resolved(n) == ~apps[n].session_file_path.nested

\* the clients of this run are built from config files of distinct stems
DistinctAccounts == \A n \in AppIdx : OwnStem(n)

\* C1: when exactly one account's start raised the banned error and every
\* other account started and joined, then at the end of the start loop every
\* other account is Idle and joined to all of CHANNELS, and the banned account
\* has joined nothing and has all its artifacts in banned_sessions.
C1_FailureIsolation ==
    \A k \in AppIdx :
        ( /\ LoopEnded
          /\ Len(apps) >= 2
          /\ DistinctAccounts
          /\ Resolved(k)
          /\ life[k] = "BannedQuarantined"
          /\ \A n \in AppIdx \ {k} : life[n] = "Idle" )
        => /\ \A n \in AppIdx \ {k} : joined[n] = CHANNELS
           /\ joined[k] = {}
           /\ AllIn(fs, StemOf(k), BANNED_SESSIONS_DIR)

\* C2: a failure of join_chat never escapes main.
C2_JoinFailureContained == pc = "except" => err # "join_chat"

\* the start outcome of apps[n] has been handled
StartHandled(n) == life[n] \notin {"Configured", "Starting"}

\* C3: once an account's start outcome has been handled, all its existing
\* artifacts (session, .ini, .json) are in one and the same area.
C3_ArtifactsTogether ==
    \A n \in AppIdx :
        (StartHandled(n) /\ OwnStem(n))
        => \E a \in Areas : AllIn(fs, StemOf(n), a)

\* C4: a fleet run never discovers a config file of an account that an
\* earlier run quarantined as banned.
C4_QuarantinedNotRediscovered ==
    (pc = "create_apps" /\ base_abs)
    => \A n \in 1..Len(config_files) : config_files[n][1] \notin quarantined

\* C5: when create_apps returned no client, main has raised 'No apps!' and
\* no client operation and no idle() has been invoked.
C5_ZeroAccountsAbort ==
    (Len(apps) = 0 /\ pc \notin {"discover", "create_apps", "check"})
    => /\ pc \in {"except", "sleeping"}
       /\ err = "No apps!"
       /\ calls = {}

\* C5 witness: config files were found, none gave a client, and main raised
C5_Witness ==
    /\ pc = "except"
    /\ err = "No apps!"
    /\ Len(config_files) > 0
    /\ Len(apps) = 0

\* C6: a failure escaping main is followed by one pause of TRY_AGAIN_SLEEP
\* seconds, the pause by a new fleet run, and the new run does begin.
C6_RestartLoop ==
    /\ [][ /\ pc = "except" => (pc' = "sleeping" /\ slept' = TRY_AGAIN_SLEEP)
           /\ pc = "sleeping" => (pc' = "discover" /\ apps' = <<>>)
           /\ pc' = "except" => slept' = 0 ]_vars
    /\ (pc = "except" ~> pc = "discover")

\* C6 witness: a join failure escaped main and the pause has been taken
C6_Witness ==
    /\ pc = "sleeping"
    /\ err = "join_chat"
    /\ slept = TRY_AGAIN_SLEEP

\* C7: once idle() has returned and main has ended, no client that reached
\* Running/Idle in this run is still started.
C7_AllRunningStopped ==
    (<<0, "idle">> \in calls /\ pc \in {"returned", "except"} /\ DistinctAccounts)
    => \A n \in AppIdx : ~Started(n)

C9_QuarantineIdempotent ==
    \A n \in AppIdx :
        (life[n] = "BannedQuarantined" /\ OwnStem(n) /\ Resolved(n))
        => LET again == MoveSessionToBanDir(fs, apps[n].session_file_path)
           IN  /\ ~again.raised
               /\ again.fs = fs
               /\ AllIn(fs, StemOf(n), BANNED_SESSIONS_DIR)

\* C10: when move_session_to_ban_dir runs for a path whose session artifact is
\* not in the active area, it does not raise and every sibling config artifact
\* that is in the active area is moved to banned_sessions.
C10_ConfigsMovedWithoutSession ==
    [][ ( /\ pc = "starting"
          /\ life'[i] = "BannedQuarantined"
          /\ ~Exists(fs, apps[i].session_file_path) )
        => /\ pc' # "except"
           /\ \A k \in ConfigKinds :
                Exists(fs, WithSuffix(apps[i].session_file_path, k))
                => fs'[<<StemOf(i), k>>] = BANNED_SESSIONS_DIR ]_vars

\* C11: every handled message has had exactly one send_reaction call, with an
\* emoji of EMOJIS; whatever the call ended with, nothing was raised out of
\* the handler, and EMOJIS is what it was at start.
C11_HandlerContained ==
    handler.outcome # "none"
    => /\ handler.emoji \in EMOJIS
       /\ handler.sends = 1
       /\ ~handler.raised
       /\ EMOJIS = 1..NumEmojis

\* C11 witness: a handler whose reaction was rejected as invalid has returned
C11_Witness ==
    /\ handler.outcome = "ReactionInvalid"
    /\ Started(handler.client)

\* the config file loads and its client constructs
Loads(cf) == cf \notin unreadable

\* C12: once create_apps has returned, apps holds exactly one entry for each
\* discovered config file that loads, in the order of discovery, and the
\* files that fail are dropped (create_apps has returned, not raised).
C12_BadConfigsSkipped ==
    pc \notin {"discover", "create_apps"}
    => [n \in 1..Len(apps) |-> apps[n].config] = SelectSeq(config_files, Loads)

\* C12 witness: the first of two discovered files failed, the second gave a client
C12_Witness ==
    /\ pc = "check"
    /\ Len(config_files) = 2
    /\ ~Loads(config_files[1])
    /\ Len(apps) = 1
    /\ apps[1].config = config_files[2]

\* get_config has returned the record of the file
Normalized == DOMAIN normalized_confing # {}

\* the indices of the source keys of a table entry whose value satisfies Test
Matching(entry, Test(_)) ==
    {n \in 1..Len(entry.values) : Test(config.mapping[entry.values[n]])}

\* the least element of a non-empty set of indices
Least(S) == CHOOSE n \in S : \A m \in S : n <= m

\* the record gives each canonical key the value of its first source key
\* whose value satisfies Test, omits a key without such a source key, and
\* has the file's stem as name unless a source key of name matched
ResolvedBy(Test(_)) ==
    /\ \A n \in 1..Len(POSSIBLE_KEY_NAMES) :
         LET entry == POSSIBLE_KEY_NAMES[n]
             hits == Matching(entry, Test)
         IN  IF hits # {}
             THEN /\ entry.key \in DOMAIN normalized_confing
                  /\ normalized_confing[entry.key]
                         = config.mapping[entry.values[Least(hits)]]
             ELSE IF entry.key = "name"
                  THEN normalized_confing["name"] = config.stem
                  ELSE entry.key \notin DOMAIN normalized_confing
    /\ "name" \in DOMAIN normalized_confing

\* the value is present and not empty
NonEmpty(v) == v \notin {"None", "''"}

\* the value is true in Python: present, not empty and not zero
Truthy(v) == ~Falsy(v)

\* C13 (as stated): each canonical key gets the value of its first source key
\* whose value is present and non-empty.
C13_FirstNonEmptyAlias == Normalized => ResolvedBy(NonEmpty)

\* C13 (amended): each canonical key gets the value of its first source key
\* whose value is present and true (not empty, not null, not zero); the
\* earlier of two such source keys wins, a key without one is omitted, name
\* is the file's stem unless a source key of name has such a value.
C13_FirstTruthyAlias == Normalized => ResolvedBy(Truthy)

\* C13 witness: both source keys of api_id have values, the first one is taken
C13_Witness ==
    /\ Normalized
    /\ config.mapping["api_id"] = "7"
    /\ config.mapping["app_id"] = "8"
    /\ normalized_confing["api_id"] = "7"
    /\ normalized_confing["name"] = config.stem

C15_NoRetryAfterConversion ==
    /\ [][ /\ (pc = "starting" /\ life'[i] = "Converting")
              => /\ pc' = LoopNext(i)
                 /\ i' = i + 1
                 /\ fs' = fs
                 /\ calls' = calls
           /\ \A n \in AppIdx :
                life[n] = "Converting"
                => \/ pc' = "discover"
                   \/ life'[n] = "Converting" /\ joined'[n] = {} ]_vars
    /\ [](\A n \in AppIdx :
            life[n] = "Converting"
            => /\ ~Started(n)
               /\ joined[n] = {}
               /\ <<n, "join_chat">> \notin calls)

\* C15 witness: the first account was converted and is left alone with its
\* files in the active area, the loop has ended with the second account Idle
C15_Witness ==
    /\ LoopEnded
    /\ Len(apps) = 2
    /\ life[1] = "Converting"
    /\ fs[<<StemOf(1), SESSION>>] = WORK_DIR
    /\ fs[apps[1].config] = WORK_DIR
    /\ life[2] = "Idle"

\* C16: when the send_reaction call of a handler ends with the banned error,
\* no file is moved, no client is stopped or otherwise operated and main goes
\* on undisturbed; an Idle account leaves Idle only by the stop loop that
\* follows the shutdown signal (or with the end of the run).
C16_LateBanNotQuarantined ==
    [][ /\ (handler.outcome = "awaiting" /\ handler'.outcome = "UserDeactivatedBan")
           => /\ fs' = fs
              /\ life' = life
              /\ calls' = calls
              /\ quarantined' = quarantined
              /\ pc' = pc
        /\ \A n \in AppIdx :
             life[n] = "Idle"
             => \/ pc' = "discover"
                \/ life'[n] = "Idle"
                \/ pc = "stopping" /\ life'[n] = "Stopped" ]_vars

\* C16 witness: an Idle account met the ban in its handler while main waits
\* in idle(); it is still Idle and its files are still in the active area
C16_Witness ==
    /\ pc = "idle"
    /\ handler.outcome = "UserDeactivatedBan"
    /\ life[handler.client] = "Idle"
    /\ fs[<<StemOf(handler.client), SESSION>>] = WORK_DIR
    /\ fs[apps[handler.client].config] = WORK_DIR

\* C17: no two clients of a fleet run are bound to the same session file.
C17_OneClientPerSession ==
    \A m \in AppIdx : \A n \in AppIdx :
        m # n => apps[m].session_file_path # apps[n].session_file_path

\* C18: stop() is invoked only on clients that had started: a client with a
\* stop call is one that was Running/Idle and is now Stopped.
C18_StopOnlyStarted ==
    \A n \in AppIdx : <<n, "stop">> \in calls => life[n] = "Stopped"

\* C19: when a fleet run begins, no client of the run that just ended is
\* still started.
C19_NoClientOutlivesRun ==
    [][ (pc # "discover" /\ pc' = "discover")
        => \A n \in AppIdx : ~Started(n) ]_vars

\* C20: when main has returned, the next step is a new fleet run, begun
\* without a sleep, and it is taken; a sleep is entered only from the except
\* clause of start().
C20_CleanShutdownRestartsAtOnce ==
    /\ [][ /\ pc = "returned" => (pc' = "discover" /\ slept' = slept /\ apps' = <<>>)
           /\ pc' = "sleeping" => pc = "except" ]_vars
    /\ (pc = "returned" ~> pc = "discover")

\* C20 witness: main has returned after stopping a client, nothing was slept
C20_Witness ==
    /\ pc = "returned"
    /\ err = "none"
    /\ slept = 0
    /\ \E n \in AppIdx : life[n] = "Stopped"

====
